---- MODULE Spec2Model ----
(***************************************************************************)
(* Result-Dashboard: the batch worker (worker_process), the upload and the *)
(* manual-correction handlers, the status view, the expiry ledgers and the *)
(* cleaner thread of dashboard_app.py, with process_single_student and     *)
(* save_results_to_excel of Result_Downloader.py.                          *)
(*                                                                         *)
(* Threads are interleaved at the granularity of their accesses to shared  *)
(* state: a `with STATE_LOCK:` block that holds nothing else is one step   *)
(* (guarded by the lock being free); failed_submit, which keeps the lock   *)
(* over a file write and a ledger registration, holds it over several.     *)
(* Time is counted in seconds and advances by one sleep(60) of the cleaner *)
(* at a time.                                                              *)
(***************************************************************************)
EXTENDS Integers, Sequences, FiniteSets, TLC

\* ---------------------------------------------------------------- bounds
MaxWorkers == 2
MaxRoster == 2
MaxManual == 1
MaxRestarts == 1
MaxTime == 1320
MaxWords == 2

\* ------------------------------------------------------ program constants
UPLOAD_TTL == 600
RESULT_TTL == 1200
SWEEP_INTERVAL == 60
SNAPSHOT_EVERY == 5

VARIABLES
    State,          \* the STATE dict
    STATE_LOCK,     \* "free", or the thread that holds it
    UPLOAD_EXPIRY,  \* upload filename -> expiry timestamp
    RESULT_EXPIRY,  \* result filename -> expiry timestamp
    EXPIRY_FILE,    \* .expiries.json: [exists, uploads, results]
    EXPIRY_LOCK,    \* "free", or the thread that holds it
    uploads,        \* UPLOAD_FOLDER: filename -> sheet
    outputs,        \* OUTPUT_FOLDER: filename -> the rows written
    now,            \* time.time()
    stamp,          \* number of timestamped report names handed out so far
    worker,         \* per upload: the request handler, then the worker thread
    manual,         \* the failed_submit request in flight
    cleaner,        \* the cleaner thread
    hist            \* history: what happened, for stating the properties

vars == <<State, STATE_LOCK, UPLOAD_EXPIRY, RESULT_EXPIRY, EXPIRY_FILE, EXPIRY_LOCK,
          uploads, outputs, now, stamp, worker, manual, cleaner, hist>>

\* ---------------------------------------------------------------- dicts
EmptyDict == [x \in {} |-> 0]

Put(d, k, v) == [x \in (DOMAIN d) \cup {k} |-> IF x = k THEN v ELSE d[x]]

Pop(d, k) == [x \in (DOMAIN d) \ {k} |-> d[x]]

\* --------------------------------------------------------------- rosters
Workers == 1..MaxWorkers

\* An empty cell of the sheet (pd.isna), and a cell int() cannot convert.
NaN == 0 - 1

Text == 0 - 2

\* The k-th student of a sheet, as the row pandas reads.
Row(k) == [name |-> k, roll |-> 100 + k, reg |-> 5000 + k]

GoodSheet(n) == [readable |-> TRUE, rows |-> [k \in 1..n |-> Row(k)]]

\* A sheet whose first row has an empty roll-number cell.
NanSheet ==
    [readable |-> TRUE,
     rows |-> [k \in 1..MaxRoster |->
                 IF k = 1 THEN [Row(k) EXCEPT !.roll = NaN] ELSE Row(k)]]

\* A sheet whose last row has a registration number that is no number.
TextSheet ==
    [readable |-> TRUE,
     rows |-> [k \in 1..MaxRoster |->
                 IF k = MaxRoster THEN [Row(k) EXCEPT !.reg = Text] ELSE Row(k)]]

\* An upload that is no workbook: pd.read_excel raises.
Unreadable == [readable |-> FALSE, rows |-> <<>>]

Sheets == {GoodSheet(n) : n \in 0..MaxRoster} \cup {NanSheet, TextSheet, Unreadable}

IsNa(cell) == cell = NaN

\* worker_process lines 158-165: the rows with three non-empty cells, in order;
\* raised when int() raises on a kept row.
RECURSIVE ReadRows(_, _)
ReadRows(rows, k) ==
    IF k > Len(rows) THEN [raised |-> FALSE, students |-> <<>>]
    ELSE LET row == rows[k]
             rest == ReadRows(rows, k + 1)
         IN  IF IsNa(row.roll) \/ IsNa(row.reg) \/ IsNa(row.name) THEN rest
             ELSE IF row.roll = Text \/ row.reg = Text
                  THEN [raised |-> TRUE, students |-> <<>>]
             ELSE IF rest.raised THEN rest
             ELSE [raised |-> FALSE,
                   students |-> <<[name |-> row.name, roll |-> row.roll,
                                   reg |-> row.reg]>> \o rest.students]

\* worker_process line 156: pd.read_excel(upload_path), then the rows.
ReadRoster(disk, path) ==
    IF path \notin DOMAIN disk THEN [raised |-> TRUE, students |-> <<>>]
    ELSE IF ~disk[path].readable THEN [raised |-> TRUE, students |-> <<>>]
    ELSE ReadRows(disk[path].rows, 1)

\* ------------------------------------------------------- the result portal
\* The controls process_single_student requires, in the order it waits for them.
Required == <<"roll_input", "reg_input", "submit", "view_link">>

Controls == {Required[k] : k \in 1..Len(Required)}

SUBJECT == "CS-CS-101"

SUBJECT2 == "MA-50"

\* A string is the sequence of its characters; the row text is the sequence of
\* its words, the maximal runs of word characters between which \b matches.
Digits == {"0", "1", "2", "3", "4", "5", "6", "7", "8", "9"}

\* str.upper(), and re.IGNORECASE, on the letters that occur.
Upper(c) ==
    CASE c = "f" -> "F"
      [] c = "a" -> "A"
      [] c = "b" -> "B"
      [] OTHER -> c

UpperWord(w) == [k \in 1..Len(w) |-> Upper(w[k])]

\* [0-9]{lo,hi} between two \b.
IsDigits(w, lo, hi) == Len(w) >= lo /\ Len(w) <= hi /\ \A k \in 1..Len(w) : w[k] \in Digits

\* line 107: \b([0-9]{1,3}F)\b, case ignored.
IsNumberF(w) ==
    /\ Len(w) >= 2
    /\ Upper(w[Len(w)]) = "F"
    /\ IsDigits(SubSeq(w, 1, Len(w) - 1), 1, 3)

\* line 113: \bF\b, case ignored.
IsF(w) == UpperWord(w) = <<"F">>

\* line 125: \bFAIL\b, \bAB\b, \bABSENT\b, case ignored.
IsFailWord(w) ==
    UpperWord(w) \in {<<"F", "A", "I", "L">>, <<"A", "B">>,
                      <<"A", "B", "S", "E", "N", "T">>}

DigitOf(c) ==
    CASE c = "0" -> 0 [] c = "1" -> 1 [] c = "2" -> 2 [] c = "3" -> 3 [] c = "4" -> 4
      [] c = "5" -> 5 [] c = "6" -> 6 [] c = "7" -> 7 [] c = "8" -> 8 [] c = "9" -> 9

\* int(n) of line 119.
RECURSIVE IntOf(_, _, _)
IntOf(w, k, acc) ==
    IF k > Len(w) THEN acc ELSE IntOf(w, k + 1, 10 * acc + DigitOf(w[k]))

\* lines 118-119: the words of two or three digits whose value is in 10..100.
ValidMarks(words) ==
    SelectSeq(words, LAMBDA w : IsDigits(w, 2, 3) /\ 10 <= IntOf(w, 1, 0)
                                                  /\ IntOf(w, 1, 0) <= 100)

\* No assignment to marks_data[subject_code].
NoMark == <<>>

\* valid_marks[-1] replaced by valid_marks[0].
PickFirstMark(valid_marks) == valid_marks[1]

\* line 122: valid_marks[-1].
PickMark(valid_marks) == valid_marks[Len(valid_marks)]

\* RowMark with the standalone F looked for before the number+F token.
RowMarkFailFirst(words) ==
    IF SelectSeq(words, IsF) # <<>> THEN <<"F">>
    ELSE IF SelectSeq(words, IsNumberF) # <<>>
         THEN UpperWord(SelectSeq(words, IsNumberF)[1])
    ELSE IF ValidMarks(words) # <<>> THEN PickMark(ValidMarks(words))
    ELSE IF SelectSeq(words, IsFailWord) # <<>> THEN <<"F">>
    ELSE NoMark

\* lines 104-130: the token recorded for a row with a subject code, from
\* row_text; re.search finds the leftmost word that matches.
RowMark(words) ==
    IF SelectSeq(words, IsNumberF) # <<>>
    THEN UpperWord(SelectSeq(words, IsNumberF)[1])
    ELSE IF SelectSeq(words, IsF) # <<>> THEN <<"F">>
    ELSE IF ValidMarks(words) # <<>> THEN PickMark(ValidMarks(words))
    ELSE IF SelectSeq(words, IsFailWord) # <<>> THEN <<"F">>
    ELSE NoMark

\* The words of a first cell that starts with a subject code.
CodeWords(code) ==
    CASE code = SUBJECT -> <<<<"C", "S">>, <<"C", "S">>, <<"1", "0", "1">>>>
      [] code = SUBJECT2 -> <<<<"M", "A">>, <<"5", "0">>>>
      [] OTHER -> <<>>

\* A row after the header row of a marks table: the number of its cells, the
\* subject code its first cell matches ("" when no pattern matches), and the
\* words of row_text, those of the first cell first.
DataRow(code, body) == [cells |-> 3, code |-> code, words |-> CodeWords(code) \o body]

EmptyPage == <<>>

OnePage == <<DataRow(SUBJECT, <<<<"8", "5">>>>)>>

Pages == {EmptyPage, OnePage}

\* What the portal does during one lookup: the controls that appear within
\* their timeouts, and the rows of the result page.
Lookups == [present : SUBSET Controls, page : Pages]

\* extract_data_from_page, lines 81-130: each row of at least three cells whose
\* first cell carries a subject code assigns marks_data[subject_code] when a
\* token is found.
RECURSIVE ExtractDataFromPage(_, _, _)
ExtractDataFromPage(page, k, marks_data) ==
    IF k > Len(page) THEN marks_data
    ELSE ExtractDataFromPage(page, k + 1,
            IF page[k].cells >= 3 /\ page[k].code # ""
                 /\ RowMark(page[k].words) # NoMark
            THEN Put(marks_data, page[k].code, RowMark(page[k].words))
            ELSE marks_data)

\* Navigate without the check of line 175: a missing View link goes unnoticed.
RECURSIVE NavigateSkipView(_, _)
NavigateSkipView(present, k) ==
    IF k >= Len(Required) THEN "none"
    ELSE IF Required[k] \notin present THEN Required[k]
    ELSE NavigateSkipView(present, k + 1)

\* process_single_student lines 140-176: the waits in order; the first control
\* that does not appear raises, "none" when all appear.
RECURSIVE Navigate(_, _)
Navigate(present, k) ==
    IF k > Len(Required) THEN "none"
    ELSE IF Required[k] \notin present THEN Required[k]
    ELSE Navigate(present, k + 1)

\* StageMessage with one message for every stage.
StageMessageAnonymous(stage) == "Failed: element not found"

\* The message of the exception raised for a control, as line 206 formats it.
StageMessage(stage) ==
    CASE stage = "roll_input" -> "Failed: Roll input not found"
      [] stage = "reg_input" -> "Failed: Registration input not found"
      [] stage = "submit" -> "Failed: Submit button not found"
      [] stage = "view_link" -> "Failed: View link not found"

\* The confirmation controls, in the order line 164 probes them.
ConfirmOrder == <<"imgComfirm", "cmdconfirm">>

ConfirmControls == {ConfirmOrder[k] : k \in 1..Len(ConfirmOrder)}

\* Everything a wait of the lookup can wait for: the required controls, the
\* confirmation controls, and the table wait_for_result_content looks for.
Elements == Controls \cup ConfirmControls \cup {"table"}

\* The confirmation loop without its break: every control that appears is clicked.
RECURSIVE ProbeConfirmNoBreak(_, _)
ProbeConfirmNoBreak(present, k) ==
    IF k > Len(ConfirmOrder) THEN <<>>
    ELSE <<[do |-> "wait", on |-> ConfirmOrder[k]]>>
             \o (IF ConfirmOrder[k] \in present
                 THEN <<[do |-> "act", on |-> ConfirmOrder[k]]>>
                 ELSE <<>>)
             \o ProbeConfirmNoBreak(present, k + 1)

\* process_single_student lines 164-168: each confirmation control is waited
\* for in turn; the first that appears is clicked and ends the loop.
RECURSIVE ProbeConfirm(_, _)
ProbeConfirm(present, k) ==
    IF k > Len(ConfirmOrder) THEN <<>>
    ELSE <<[do |-> "wait", on |-> ConfirmOrder[k]]>>
             \o (IF ConfirmOrder[k] \in present
                 THEN <<[do |-> "act", on |-> ConfirmOrder[k]]>>
                 ELSE ProbeConfirm(present, k + 1))

\* process_single_student lines 140-188: what the lookup does to the browser,
\* in order. A wait for a required control that does not appear raises and is
\* the last step; otherwise the control is filled or clicked. After the View
\* link, wait_for_result_content, a warning when it timed out, the extraction.
RECURSIVE LookupSteps(_, _)
LookupSteps(present, k) ==
    IF k > Len(Required)
    THEN <<[do |-> "wait", on |-> "table"]>>
             \o (IF "table" \in present THEN <<>>
                 ELSE <<[do |-> "warn", on |-> "table"]>>)
             \o <<[do |-> "extract", on |-> "page"]>>
    ELSE <<[do |-> "wait", on |-> Required[k]]>>
             \o (IF Required[k] \notin present THEN <<>>
                 ELSE <<[do |-> "act", on |-> Required[k]]>>
                          \o (IF Required[k] = "submit"
                              THEN ProbeConfirm(present, 1) ELSE <<>>)
                          \o LookupSteps(present, k + 1))

\* ProcessSingleStudent where a timeout of wait_for_result_content raises.
ProcessSingleStudentStrict(student, lookup) ==
    IF Controls \subseteq lookup.present /\ "table" \in lookup.present
    THEN [name |-> student.name, roll |-> student.roll, reg |-> student.reg,
          status |-> "Success",
          marks |-> ExtractDataFromPage(lookup.page, 1, EmptyDict)]
    ELSE [name |-> student.name, roll |-> student.roll, reg |-> student.reg,
          status |-> "Failed: Result content not loaded", marks |-> EmptyDict]

\* process_single_student: the record of one lookup.
ProcessSingleStudent(student, lookup) ==
    LET stage == Navigate(lookup.present, 1)
    IN  IF stage # "none"
        THEN [name |-> student.name, roll |-> student.roll, reg |-> student.reg,
              status |-> StageMessage(stage), marks |-> EmptyDict]
        ELSE [name |-> student.name, roll |-> student.roll, reg |-> student.reg,
              status |-> "Success",
              marks |-> ExtractDataFromPage(lookup.page, 1, EmptyDict)]

\* The lookups the batch runs are checked with: every control appears, with
\* either page; the View link alone is missing; no control appears at all.
BatchLookups ==
    {[present |-> Controls, page |-> page] : page \in Pages}
        \cup {[present |-> Controls \ {"view_link"}, page |-> OnePage],
              [present |-> {}, page |-> OnePage]}

\* ----------------------------------------------------------------- state
NoFile == 0 - 1

BASE_NAME == 0

NoResult == [name |-> 0, roll |-> 0, reg |-> 0, status |-> "", marks |-> EmptyDict]

InitState ==
    [students |-> <<>>, results |-> <<>>, current_index |-> 0, running |-> FALSE,
     successful |-> 0, failed |-> 0, filename |-> NoFile]

NewWorker ==
    [pc |-> "unborn", path |-> NoFile, students |-> <<>>, i |-> 0,
     result |-> NoResult, outname |-> NoFile, driver |-> "none",
     session |-> "none"]

NoLookup == [present |-> {}, page |-> EmptyPage]

NoManual == [pc |-> "idle", idx |-> 0, outname |-> NoFile]

\* The cleaner thread as line 124 starts it: about to run its first sweep.
NewCleaner == [pc |-> "awake", now |-> 0, todo |-> {}, fname |-> NoFile]

\* A thread that has ended: its locals are gone; what became of the browser
\* session stays.
Ended(wk, pc) == [NewWorker EXCEPT !.pc = pc, !.driver = wk.driver]

\* A worker thread that has started and has neither returned nor died.
Alive(w) == worker[w].pc \notin {"unborn", "uploaded", "done", "dead", "killed"}

Init ==
    /\ State = InitState
    /\ STATE_LOCK = "free"
    /\ UPLOAD_EXPIRY = EmptyDict
    /\ RESULT_EXPIRY = EmptyDict
    /\ EXPIRY_FILE = [exists |-> FALSE, uploads |-> EmptyDict, results |-> EmptyDict]
    /\ EXPIRY_LOCK = "free"
    /\ uploads = EmptyDict
    /\ outputs = EmptyDict
    /\ now = 0
    /\ stamp = 0
    /\ worker = [w \in Workers |-> NewWorker]
    /\ manual = NoManual
    /\ cleaner = NewCleaner
    /\ hist = [overlap |-> FALSE,
               latest |-> 0,
               calls |-> [w \in Workers |-> <<>>],
               upDue |-> EmptyDict,
               resDue |-> EmptyDict,
               restarts |-> 0,
               manuals |-> 0,
               last |-> [w \in Workers |-> NoLookup],
               saveFailed |-> [w \in Workers |-> 0],
               manual |-> [idx |-> 0, lines |-> <<>>, before |-> <<>>],
               removeFailed |-> FALSE]

\* ------------------------------------------------------------- the ledger
\* A with block left with its lock still held.
KeepLock(holder) == holder

\* The end of a with EXPIRY_LOCK block (lines 70-71, 79-80, 87-88): the lock
\* is released before anything else is called.
ExitExpiryBlock(holder) == "free"

\* save_expiries: .expiries.json is rewritten from the two dicts.
save_expiries ==
    EXPIRY_FILE' = [exists |-> TRUE, uploads |-> UPLOAD_EXPIRY, results |-> RESULT_EXPIRY]

\* set_upload_expiry, the dict update under EXPIRY_LOCK.
set_upload_expiry(filename) ==
    /\ UPLOAD_EXPIRY' = Put(UPLOAD_EXPIRY, filename, now + UPLOAD_TTL)
    /\ hist' = [hist EXCEPT !.upDue = Put(@, filename, now + UPLOAD_TTL)]

\* set_result_expiry, the dict update under EXPIRY_LOCK.
set_result_expiry(filename) ==
    /\ RESULT_EXPIRY' = Put(RESULT_EXPIRY, filename, now + RESULT_TTL)
    /\ hist' = [hist EXCEPT !.resDue = Put(@, filename, now + RESULT_TTL)]

\* ------------------------------------------------------------ the upload
\* upload, lines 247-251: the file is saved and its expiry recorded.
Upload(w, sheet) ==
    /\ worker[w].pc = "unborn"
    /\ EXPIRY_LOCK = "free"
    /\ EXPIRY_LOCK' = ExitExpiryBlock("upload")
    /\ \A v \in Workers : v < w => worker[v].pc # "unborn"
    /\ uploads' = Put(uploads, w, sheet)
    /\ set_upload_expiry(w)
    /\ worker' = [worker EXCEPT ![w].pc = "uploaded", ![w].path = w]
    /\ UNCHANGED <<State, STATE_LOCK, RESULT_EXPIRY, EXPIRY_FILE, outputs, now,
                   stamp, manual, cleaner>>

\* upload, lines 251-255: save_expiries(), then the worker thread is started.
UploadStart(w) ==
    /\ worker[w].pc = "uploaded"
    /\ EXPIRY_LOCK = "free"
    /\ EXPIRY_LOCK' = ExitExpiryBlock("upload")
    /\ save_expiries
    /\ worker' = [worker EXCEPT ![w].pc = "reset"]
    /\ hist' = [hist EXCEPT !.overlap = @ \/ \E v \in Workers : Alive(v),
                             !.latest = w]
    /\ UNCHANGED <<State, STATE_LOCK, UPLOAD_EXPIRY, RESULT_EXPIRY, uploads, outputs,
                   now, stamp, manual, cleaner>>

\* ------------------------------------------------------- worker_process
\* ResetState without line 151: current_index keeps its value.
ResetStateKeepIndex(st) ==
    [st EXCEPT !.running = TRUE, !.results = <<>>, !.successful = 0, !.failed = 0]

\* lines 149-154, under STATE_LOCK.
ResetState(st) ==
    [st EXCEPT !.running = TRUE, !.current_index = 0, !.results = <<>>,
               !.successful = 0, !.failed = 0]

\* AppendResult with the record put in front of the list.
AppendResultFront(st, result) ==
    [st EXCEPT !.results = <<result>> \o @,
               !.successful = IF result.status = "Success" THEN @ + 1 ELSE @,
               !.failed = IF result.status = "Success" THEN @ ELSE @ + 1]

\* lines 198-203, under STATE_LOCK.
AppendResult(st, result) ==
    [st EXCEPT !.results = Append(@, result),
               !.successful = IF result.status = "Success" THEN @ + 1 ELSE @,
               !.failed = IF result.status = "Success" THEN @ ELSE @ + 1]

\* The condition of line 206 without its first disjunct: the final student only.
SnapshotFinalOnly(i, n) == i = n

\* line 206.
SnapshotDue(i, n) == i % SNAPSHOT_EVERY = 0 \/ i = n

\* The for statement of line 177: the next student, or the end of the loop.
LoopNext(wk) ==
    IF wk.i < Len(wk.students)
    THEN [wk EXCEPT !.pc = "index", !.i = @ + 1]
    ELSE [wk EXCEPT !.pc = "quit"]

W_Reset(w) ==
    /\ worker[w].pc = "reset"
    /\ STATE_LOCK = "free"
    /\ State' = ResetState(State)
    /\ worker' = [worker EXCEPT ![w].pc = "read"]
    /\ UNCHANGED <<EXPIRY_LOCK, STATE_LOCK, UPLOAD_EXPIRY, RESULT_EXPIRY, EXPIRY_FILE, uploads,
                   outputs, now, stamp, manual, cleaner, hist>>

\* lines 156-165: an exception here ends the thread.
W_ReadRoster(w) ==
    /\ worker[w].pc = "read"
    /\ LET read == ReadRoster(uploads, worker[w].path)
       IN  worker' = [worker EXCEPT
                        ![w] = IF read.raised THEN Ended(@, "dead")
                               ELSE [@ EXCEPT !.pc = "students",
                                              !.students = read.students]]
    /\ UNCHANGED <<EXPIRY_LOCK, State, STATE_LOCK, UPLOAD_EXPIRY, RESULT_EXPIRY, EXPIRY_FILE,
                   uploads, outputs, now, stamp, manual, cleaner, hist>>

\* lines 167-177: the roster is published, then create_driver_headless()
\* returns a session or raises; an exception ends the thread.
W_SetStudents(w, ok) ==
    /\ worker[w].pc = "students"
    /\ STATE_LOCK = "free"
    /\ State' = [State EXCEPT !.students = worker[w].students]
    /\ worker' = [worker EXCEPT
                    ![w] = IF ok THEN LoopNext([@ EXCEPT !.driver = "open"])
                           ELSE Ended(@, "dead")]
    /\ UNCHANGED <<EXPIRY_LOCK, STATE_LOCK, UPLOAD_EXPIRY, RESULT_EXPIRY, EXPIRY_FILE, uploads,
                   outputs, now, stamp, manual, cleaner, hist>>

\* The end of the with block of lines 178-179: STATE_LOCK is released.
ExitIndexBlock(holder) == "free"

\* lines 178-179: current_index is set under STATE_LOCK.
W_Index(w) ==
    /\ worker[w].pc = "index"
    /\ STATE_LOCK = "free"
    /\ State' = [State EXCEPT !.current_index = worker[w].i]
    /\ STATE_LOCK' = ExitIndexBlock("worker_process")
    /\ worker' = [worker EXCEPT ![w].pc = "session"]
    /\ UNCHANGED <<EXPIRY_LOCK, UPLOAD_EXPIRY, RESULT_EXPIRY, EXPIRY_FILE, uploads, outputs, now,
                   stamp, manual, cleaner, hist>>

\* The loop body without lines 181-186: the session is left as it is.
SkipSession(ok) == "none"

\* lines 181-186: delete_all_cookies() and the reload of the base page; an
\* exception is swallowed.
ResetSession(ok) == IF ok THEN "fresh" ELSE "failed"

W_SessionReset(w, ok) ==
    /\ worker[w].pc = "session"
    /\ worker' = [worker EXCEPT ![w].pc = "lookup", ![w].session = ResetSession(ok)]
    /\ UNCHANGED <<EXPIRY_LOCK, State, STATE_LOCK, UPLOAD_EXPIRY, RESULT_EXPIRY, EXPIRY_FILE,
                   uploads, outputs, now, stamp, manual, cleaner, hist>>

\* lines 187-196: the lookup with its waits and the extraction; STATE_LOCK is
\* not touched.
W_Lookup(w, lookup) ==
    /\ worker[w].pc = "lookup"
    /\ LET student == worker[w].students[worker[w].i]
       IN  /\ worker' = [worker EXCEPT
                           ![w].pc = "append",
                           ![w].result = ProcessSingleStudent(student, lookup)]
           /\ hist' = [hist EXCEPT !.calls[w] = Append(@, student),
                                    !.last[w] = lookup]
    /\ UNCHANGED <<EXPIRY_LOCK, State, STATE_LOCK, UPLOAD_EXPIRY, RESULT_EXPIRY, EXPIRY_FILE,
                   uploads, outputs, now, stamp, manual, cleaner>>

\* lines 198-206.
W_Append(w) ==
    /\ worker[w].pc = "append"
    /\ STATE_LOCK = "free"
    /\ State' = AppendResult(State, worker[w].result)
    /\ worker' = [worker EXCEPT
                    ![w] = IF SnapshotDue(@.i, Len(@.students))
                           THEN [@ EXCEPT !.pc = "save", !.result = NoResult,
                                          !.session = "none"]
                           ELSE LoopNext([@ EXCEPT !.result = NoResult,
                                                   !.session = "none"])]
    /\ hist' = [hist EXCEPT !.last[w] = NoLookup]
    /\ UNCHANGED <<EXPIRY_LOCK, STATE_LOCK, UPLOAD_EXPIRY, RESULT_EXPIRY, EXPIRY_FILE, uploads,
                   outputs, now, stamp, manual, cleaner>>

\* save_results_to_excel: nothing is written for an empty list; otherwise one
\* row per record, of which the Student_Name column is kept here.
SaveResultsToExcel(disk, results, filename) ==
    IF results = <<>> THEN disk
    ELSE Put(disk, filename, [k \in 1..Len(results) |-> results[k].name])

\* lines 207-218: the report name, and the write, which may raise; an exception
\* ends the thread.
W_Save(w, ok) ==
    /\ worker[w].pc = "save"
    /\ LET taken == BASE_NAME \in DOMAIN outputs
           outname == IF taken THEN stamp + 1 ELSE BASE_NAME
       IN  /\ stamp' = IF taken THEN stamp + 1 ELSE stamp
           /\ IF ok \/ State.results = <<>>
              THEN /\ outputs' = SaveResultsToExcel(outputs, State.results, outname)
                   /\ worker' = [worker EXCEPT ![w].pc = "register",
                                               ![w].outname = outname]
                   /\ hist' = hist
              ELSE /\ outputs' = outputs
                   /\ worker' = [worker EXCEPT ![w] = Ended(@, "dead")]
                   /\ hist' = [hist EXCEPT !.saveFailed[w] = worker[w].i]
    /\ UNCHANGED <<EXPIRY_LOCK, State, STATE_LOCK, UPLOAD_EXPIRY, RESULT_EXPIRY, EXPIRY_FILE,
                   uploads, now, manual, cleaner>>

\* line 220, the dict update of set_result_expiry.
W_Register(w) ==
    /\ worker[w].pc = "register"
    /\ EXPIRY_LOCK = "free"
    /\ EXPIRY_LOCK' = ExitExpiryBlock("worker_process")
    /\ set_result_expiry(worker[w].outname)
    /\ worker' = [worker EXCEPT ![w].pc = "persist"]
    /\ UNCHANGED <<State, STATE_LOCK, UPLOAD_EXPIRY, EXPIRY_FILE, uploads, outputs,
                   now, stamp, manual, cleaner>>

\* line 220, the save_expiries() of set_result_expiry.
W_Persist(w) ==
    /\ worker[w].pc = "persist"
    /\ EXPIRY_LOCK = "free"
    /\ EXPIRY_LOCK' = ExitExpiryBlock("worker_process")
    /\ save_expiries
    /\ worker' = [worker EXCEPT ![w].pc = "filename"]
    /\ UNCHANGED <<State, STATE_LOCK, UPLOAD_EXPIRY, RESULT_EXPIRY, uploads, outputs,
                   now, stamp, manual, cleaner, hist>>

\* lines 221-222, then the next student.
W_SetFilename(w) ==
    /\ worker[w].pc = "filename"
    /\ STATE_LOCK = "free"
    /\ State' = [State EXCEPT !.filename = worker[w].outname]
    /\ worker' = [worker EXCEPT ![w] = LoopNext([@ EXCEPT !.outname = NoFile])]
    /\ UNCHANGED <<EXPIRY_LOCK, STATE_LOCK, UPLOAD_EXPIRY, RESULT_EXPIRY, EXPIRY_FILE, uploads,
                   outputs, now, stamp, manual, cleaner, hist>>

\* lines 224-230: driver.quit(), then running is cleared under STATE_LOCK.
W_Finish(w) ==
    /\ worker[w].pc = "quit"
    /\ STATE_LOCK = "free"
    /\ State' = [State EXCEPT !.running = FALSE]
    /\ worker' = [worker EXCEPT ![w] = Ended([@ EXCEPT !.driver = "quit"], "done")]
    /\ UNCHANGED <<EXPIRY_LOCK, STATE_LOCK, UPLOAD_EXPIRY, RESULT_EXPIRY, EXPIRY_FILE, uploads,
                   outputs, now, stamp, manual, cleaner, hist>>

WorkerStep(w, lookups) ==
    \/ UploadStart(w)
    \/ W_Reset(w)
    \/ W_ReadRoster(w)
    \/ \E ok \in BOOLEAN : W_SetStudents(w, ok)
    \/ W_Index(w)
    \/ \E ok \in BOOLEAN : W_SessionReset(w, ok)
    \/ \E lookup \in lookups : W_Lookup(w, lookup)
    \/ W_Append(w)
    \/ \E ok \in BOOLEAN : W_Save(w, ok)
    \/ W_Register(w)
    \/ W_Persist(w)
    \/ W_SetFilename(w)
    \/ W_Finish(w)

\* ---------------------------------------------------------- failed_submit
\* A line of the manual_marks textarea, split at its commas.
GoodLine == <<SUBJECT, "Bob", "100", <<"4", "0">>>>

ShortLine == <<"CS-102", "Bob", "100">>

\* A line of five fields that repeats the code of GoodLine.
LongLine == <<SUBJECT, "Bob", "100", <<"5", "5">>, "re-evaluated">>

ManualInputs == {<<GoodLine, ShortLine>>, <<ShortLine>>, <<GoodLine, LongLine>>}

\* lines 311-317: the lines with at least four fields give code -> obtained.
RECURSIVE ParseManual(_, _, _)
ParseManual(lines, k, marks) ==
    IF k > Len(lines) THEN marks
    ELSE ParseManual(lines, k + 1,
            IF Len(lines[k]) >= 4 THEN Put(marks, lines[k][1], lines[k][4])
            ELSE marks)

\* CorrectRecord without line 323: the status is left as it was.
CorrectRecordKeepStatus(results, idx, marks) ==
    [results EXCEPT ![idx + 1] = [@ EXCEPT !.marks = marks]]

\* lines 322-323.
CorrectRecord(results, idx, marks) ==
    [results EXCEPT ![idx + 1] = [@ EXCEPT !.marks = marks,
                                           !.status = "Success (manual)"]]

\* lines 310-328: STATE_LOCK is taken; an index out of range answers 404 and
\* releases it, otherwise the record is replaced and the lock stays held.
F_Begin(idx, lines) ==
    /\ manual.pc = "idle"
    /\ hist.manuals < MaxManual
    /\ STATE_LOCK = "free"
    /\ hist' = [hist EXCEPT
                   !.manuals = @ + 1,
                   !.manual = IF idx >= Len(State.results) THEN @
                              ELSE [idx |-> idx, lines |-> lines,
                                    before |-> State.results]]
    /\ IF idx >= Len(State.results)
       THEN UNCHANGED <<EXPIRY_LOCK, State, STATE_LOCK, manual, stamp>>
       ELSE /\ State' = [State EXCEPT !.results =
                           CorrectRecord(@, idx, ParseManual(lines, 1, EmptyDict))]
            /\ STATE_LOCK' = "failed_submit"
            /\ stamp' = stamp + 1
            /\ manual' = [pc |-> "save", idx |-> idx, outname |-> stamp + 1]
    /\ UNCHANGED <<EXPIRY_LOCK, UPLOAD_EXPIRY, RESULT_EXPIRY, EXPIRY_FILE, uploads, outputs, now,
                   worker, cleaner>>

\* line 329: the write; an exception leaves the with block, releasing the lock.
F_Save(ok) ==
    /\ manual.pc = "save"
    /\ IF ok
       THEN /\ outputs' = SaveResultsToExcel(outputs, State.results, manual.outname)
            /\ manual' = [manual EXCEPT !.pc = "register"]
            /\ UNCHANGED STATE_LOCK
       ELSE /\ manual' = NoManual
            /\ STATE_LOCK' = "free"
            /\ UNCHANGED outputs
    /\ UNCHANGED <<EXPIRY_LOCK, State, UPLOAD_EXPIRY, RESULT_EXPIRY, EXPIRY_FILE, uploads, now,
                   stamp, worker, cleaner, hist>>

\* line 330, the dict update of set_result_expiry.
F_Register ==
    /\ manual.pc = "register"
    /\ EXPIRY_LOCK = "free"
    /\ EXPIRY_LOCK' = ExitExpiryBlock("failed_submit")
    /\ set_result_expiry(manual.outname)
    /\ manual' = [manual EXCEPT !.pc = "persist"]
    /\ UNCHANGED <<State, STATE_LOCK, UPLOAD_EXPIRY, EXPIRY_FILE, uploads, outputs,
                   now, stamp, worker, cleaner>>

\* lines 330-333: save_expiries(), the filename pointer, the lock released.
F_Finish ==
    /\ manual.pc = "persist"
    /\ EXPIRY_LOCK = "free"
    /\ EXPIRY_LOCK' = ExitExpiryBlock("failed_submit")
    /\ save_expiries
    /\ State' = [State EXCEPT !.filename = manual.outname]
    /\ STATE_LOCK' = "free"
    /\ manual' = NoManual
    /\ UNCHANGED <<UPLOAD_EXPIRY, RESULT_EXPIRY, uploads, outputs, now, stamp,
                   worker, cleaner, hist>>

ManualStep ==
    \/ \E idx \in 0..MaxRoster, lines \in ManualInputs : F_Begin(idx, lines)
    \/ \E ok \in BOOLEAN : F_Save(ok)
    \/ F_Register
    \/ F_Finish

\* ------------------------------------------------------------ cleaner_loop
\* The entries of a ledger whose expiry has elapsed at time t (lines 99, 109).
Expired(ledger, t) == {f \in DOMAIN ledger : t >= ledger[f]}

Least(S) == CHOOSE f \in S : \A g \in S : f <= g

\* os.remove(path) when the file exists: it is deleted, or the error is swallowed.
Remove(disk, f, ok) == IF f \in DOMAIN disk /\ ok THEN Pop(disk, f) ELSE disk

\* lines 96-98: the sweep starts; the upload entries are listed.
C_Begin ==
    /\ cleaner.pc = "awake"
    /\ cleaner' = [cleaner EXCEPT !.pc = "uploads", !.now = now,
                                  !.todo = Expired(UPLOAD_EXPIRY, now)]
    /\ UNCHANGED <<EXPIRY_LOCK, State, STATE_LOCK, UPLOAD_EXPIRY, RESULT_EXPIRY, EXPIRY_FILE,
                   uploads, outputs, now, stamp, worker, manual, hist>>

\* lines 99-106: one expired upload is deleted and its entry popped.
C_Upload(ok) ==
    /\ cleaner.pc = "uploads"
    /\ cleaner.todo # {}
    /\ LET fname == Least(cleaner.todo)
       IN  /\ uploads' = Remove(uploads, fname, ok)
           /\ UPLOAD_EXPIRY' = Pop(UPLOAD_EXPIRY, fname)
           /\ cleaner' = [cleaner EXCEPT !.todo = @ \ {fname}]
           /\ hist' = [hist EXCEPT !.removeFailed = @ \/ fname \in DOMAIN uploads']
    /\ UNCHANGED <<EXPIRY_LOCK, State, STATE_LOCK, RESULT_EXPIRY, EXPIRY_FILE, outputs, now,
                   stamp, worker, manual>>

\* line 108: the result entries are listed.
C_Results ==
    /\ cleaner.pc = "uploads"
    /\ cleaner.todo = {}
    /\ cleaner' = [cleaner EXCEPT !.pc = "results",
                                  !.todo = Expired(RESULT_EXPIRY, cleaner.now)]
    /\ UNCHANGED <<EXPIRY_LOCK, State, STATE_LOCK, UPLOAD_EXPIRY, RESULT_EXPIRY, EXPIRY_FILE,
                   uploads, outputs, now, stamp, worker, manual, hist>>

\* lines 109-115: one expired report is deleted.
C_Remove(ok) ==
    /\ cleaner.pc = "results"
    /\ cleaner.todo # {}
    /\ LET fname == Least(cleaner.todo)
       IN  /\ outputs' = Remove(outputs, fname, ok)
           /\ cleaner' = [cleaner EXCEPT !.pc = "pop", !.fname = fname,
                                         !.todo = @ \ {fname}]
           /\ hist' = [hist EXCEPT !.removeFailed = @ \/ fname \in DOMAIN outputs']
    /\ UNCHANGED <<EXPIRY_LOCK, State, STATE_LOCK, UPLOAD_EXPIRY, RESULT_EXPIRY, EXPIRY_FILE,
                   uploads, now, stamp, worker, manual>>

\* line 116.
C_Pop ==
    /\ cleaner.pc = "pop"
    /\ RESULT_EXPIRY' = Pop(RESULT_EXPIRY, cleaner.fname)
    /\ cleaner' = [cleaner EXCEPT !.pc = "clear"]
    /\ UNCHANGED <<EXPIRY_LOCK, State, STATE_LOCK, UPLOAD_EXPIRY, EXPIRY_FILE, uploads, outputs,
                   now, stamp, worker, manual, hist>>

\* lines 118-120, under STATE_LOCK.
ClearPointer(st, fname) ==
    IF st.filename = fname THEN [st EXCEPT !.filename = NoFile] ELSE st

C_Clear ==
    /\ cleaner.pc = "clear"
    /\ STATE_LOCK = "free"
    /\ State' = ClearPointer(State, cleaner.fname)
    /\ cleaner' = [cleaner EXCEPT !.pc = "results", !.fname = NoFile]
    /\ UNCHANGED <<EXPIRY_LOCK, STATE_LOCK, UPLOAD_EXPIRY, RESULT_EXPIRY, EXPIRY_FILE, uploads,
                   outputs, now, stamp, worker, manual, hist>>

\* line 121: the sweep is over and the thread sleeps.
C_Sleep ==
    /\ cleaner.pc = "results"
    /\ cleaner.todo = {}
    /\ cleaner' = [cleaner EXCEPT !.pc = "sleep"]
    /\ UNCHANGED <<EXPIRY_LOCK, State, STATE_LOCK, UPLOAD_EXPIRY, RESULT_EXPIRY, EXPIRY_FILE,
                   uploads, outputs, now, stamp, worker, manual, hist>>

CleanerStep ==
    \/ C_Begin
    \/ \E ok \in BOOLEAN : C_Upload(ok)
    \/ C_Results
    \/ \E ok \in BOOLEAN : C_Remove(ok)
    \/ C_Pop
    \/ C_Clear
    \/ C_Sleep

\* time.sleep(60) returns: a sweep interval has passed.
Tick ==
    /\ cleaner.pc = "sleep"
    /\ now + SWEEP_INTERVAL <= MaxTime
    /\ now' = now + SWEEP_INTERVAL
    /\ cleaner' = [cleaner EXCEPT !.pc = "awake"]
    /\ UNCHANGED <<EXPIRY_LOCK, State, STATE_LOCK, UPLOAD_EXPIRY, RESULT_EXPIRY, EXPIRY_FILE,
                   uploads, outputs, stamp, worker, manual, hist>>

\* ---------------------------------------------------------------- restart
\* load_expiries: the entries of .expiries.json still in the future at time t.
\* No line of the program calls it.
load_expiries(file, t) ==
    IF ~file.exists THEN [uploads |-> EmptyDict, results |-> EmptyDict]
    ELSE [uploads |-> [f \in {g \in DOMAIN file.uploads : file.uploads[g] > t}
                         |-> file.uploads[f]],
          results |-> [f \in {g \in DOMAIN file.results : file.results[g] > t}
                         |-> file.results[f]]]

\* What the module's top level leaves in the ledgers (lines 42-43).
BootLedgers == [uploads |-> EmptyDict, results |-> EmptyDict]

\* The process is stopped and started again: its threads are gone, the files
\* stay, and the module's top level runs (lines 29-45, 124).
Restart ==
    /\ hist.restarts < MaxRestarts
    /\ hist' = [hist EXCEPT !.restarts = @ + 1]
    /\ State' = InitState
    /\ STATE_LOCK' = "free"
    /\ EXPIRY_LOCK' = "free"
    /\ UPLOAD_EXPIRY' = BootLedgers.uploads
    /\ RESULT_EXPIRY' = BootLedgers.results
    /\ worker' = [w \in Workers |->
                    IF worker[w].pc \in {"unborn", "done", "dead", "killed"}
                    THEN worker[w]
                    ELSE Ended(worker[w], "killed")]
    /\ manual' = NoManual
    /\ cleaner' = NewCleaner
    /\ UNCHANGED <<EXPIRY_FILE, uploads, outputs, now, stamp>>

\* ---------------------------------------------------------- specifications
\* Any number of uploads at any time: batch runs may overlap.
NextBatch ==
    \/ \E w \in Workers, sheet \in Sheets : Upload(w, sheet)
    \/ \E w \in Workers : WorkerStep(w, BatchLookups)

SpecBatch == Init /\ [][NextBatch]_vars

\* Uploads arrive only while no batch run is in progress.
Idle == \A w \in Workers : ~Alive(w) /\ worker[w].pc # "uploaded"

NextSeq ==
    \/ \E w \in Workers, sheet \in Sheets : Idle /\ Upload(w, sheet)
    \/ \E w \in Workers : WorkerStep(w, BatchLookups)

SpecSeq == Init /\ [][NextSeq]_vars

\* One batch run, with manual corrections arriving at any time.
NextManual ==
    \/ \E sheet \in Sheets : Upload(1, sheet)
    \/ WorkerStep(1, BatchLookups)
    \/ ManualStep

SpecManual == Init /\ [][NextManual]_vars

\* One batch run over a roster one student longer than the snapshot period.
LongRoster == SNAPSHOT_EVERY + 1

LongLookups ==
    {[present |-> Controls, page |-> OnePage],
     [present |-> Controls \ {"view_link"}, page |-> OnePage]}

NextLong ==
    \/ Upload(1, GoodSheet(LongRoster))
    \/ WorkerStep(1, LongLookups)

SpecLong == Init /\ [][NextLong]_vars

\* One batch run over one student, the cleaner, the clock, and restarts of the
\* process.
NextLife ==
    \/ Upload(1, GoodSheet(1))
    \/ WorkerStep(1, LongLookups)
    \/ CleanerStep
    \/ Tick
    \/ Restart

SpecLife == Init /\ [][NextLife]_vars

\* One batch run over one student whose result page is any page of rows built
\* from a vocabulary of words.
Vocabulary ==
    {<<"2", "9", "F">>, <<"7", "f">>, <<"F">>, <<"7", "6">>, <<"1", "0", "0">>,
     <<"4", "5">>, <<"5">>, <<"1", "5", "0">>, <<"A", "B">>,
     <<"1", "2", "3", "4", "F">>}

Bodies == UNION {[1..n -> Vocabulary] : n \in 0..MaxWords}

SmallBodies ==
    {<<>>, <<<<"2", "9", "F">>>>, <<<<"7", "6">>>>, <<<<"F">>>>,
     <<<<"4", "5">>, <<"1", "5", "0">>>>}

ExtractPages ==
    {<<DataRow(SUBJECT, body)>> : body \in Bodies}
        \cup {<<DataRow(c[1], b[1]), DataRow(c[2], b[2])>> :
                 c \in {SUBJECT, SUBJECT2} \X {SUBJECT, SUBJECT2},
                 b \in SmallBodies \X SmallBodies}
        \cup {<<[DataRow(SUBJECT, <<<<"7", "6">>>>) EXCEPT !.cells = 2]>>,
              <<DataRow("", <<<<"7", "6">>>>)>>}

ExtractLookups == {[present |-> Controls, page |-> page] : page \in ExtractPages}

NextExtract ==
    \/ Upload(1, GoodSheet(1))
    \/ WorkerStep(1, ExtractLookups)

SpecExtract == Init /\ [][NextExtract]_vars

\* One batch run in which, at each lookup, any set of the elements waited for
\* appears, before either page.
AllLookups == [present : SUBSET Elements, page : Pages]

NextLookup ==
    \/ Upload(1, GoodSheet(MaxRoster))
    \/ WorkerStep(1, AllLookups)

SpecLookup == Init /\ [][NextLookup]_vars

\* One batch run over one student, manual corrections, the cleaner and the
\* clock: every thread that takes a lock. The request handlers and the worker
\* are scheduled in two bursts, when the process starts and when the first
\* report is due to expire; the cleaner runs throughout.
BurstTimes == {0, RESULT_TTL}

NextLocks ==
    \/ now \in BurstTimes /\ Upload(1, GoodSheet(1))
    \/ now \in BurstTimes /\ WorkerStep(1, LongLookups)
    \/ now \in BurstTimes /\ ManualStep
    \/ CleanerStep
    \/ Tick

SpecLocks == Init /\ [][NextLocks]_vars

\* One batch run over a roster one student longer than the snapshot period,
\* scheduled in the same two bursts, beside the cleaner and the clock.
SweepLookups == {[present |-> Controls, page |-> OnePage]}

NextSweep ==
    \/ now \in BurstTimes /\ Upload(1, GoodSheet(LongRoster))
    \/ now \in BurstTimes /\ WorkerStep(1, SweepLookups)
    \/ CleanerStep
    \/ Tick

SpecSweep == Init /\ [][NextSweep]_vars

\* ------------------------------------------------------------------ views
\* line 272: no student is in flight.
None == 0

\* status, lines 265-275: what one query reads while it holds STATE_LOCK.
status ==
    [total |-> Len(State.students),
     current |-> State.current_index,
     running |-> State.running,
     successful |-> State.successful,
     failed |-> State.failed,
     result_file |-> State.filename,
     current_student |->
         IF 0 < State.current_index /\ State.current_index <= Len(State.students)
         THEN State.students[State.current_index].name
         ELSE None,
     failed_list |-> SelectSeq(State.results, LAMBDA r : r.status # "Success")]

\* The roster of the sheet worker w was started on.
Roster(w) == ReadRoster(uploads, w).students

Identity(r) == [name |-> r.name, roll |-> r.roll, reg |-> r.reg]

\* No later batch run has been started after that of worker w.
LastRun(w) == hist.latest = w

IsPrefix(s, t) == Len(s) <= Len(t) /\ \A k \in 1..Len(s) : s[k] = t[k]

\* ----------------------------------------------------------------- claims
\* C1: in every state a status query can observe (STATE_LOCK is free for it to
\* take), as long as no two batch runs have overlapped, successful + failed
\* equals the number of results, which is at most current_index, which is at
\* most the roster size.
C1_CountersInvariant ==
    (STATE_LOCK = "free" /\ ~hist.overlap) =>
        /\ status.successful + status.failed = Len(State.results)
        /\ Len(State.results) <= status.current
        /\ status.current <= status.total

\* A second run, over a one-student roster, is in flight after a first run over
\* two students has completed.
C1_Witness ==
    /\ worker[1].pc = "done"
    /\ Len(hist.calls[1]) = 2
    /\ worker[2].pc = "append"
    /\ status.total = 1
    /\ status.current = 1
    /\ ~hist.overlap

\* C2: while batch runs do not overlap, the students looked up by a run are a
\* prefix of its roster, each once and in roster order; when the run has
\* completed, there is one result per student of the roster, result i carrying
\* the name, roll and registration number of roster entry i.
C2_OrderPreserving ==
    \A w \in Workers :
        ~hist.overlap =>
            /\ Alive(w) => IsPrefix(hist.calls[w], worker[w].students)
            /\ (worker[w].pc = "done" /\ LastRun(w)) =>
                   /\ hist.calls[w] = Roster(w)
                   /\ Len(State.results) = Len(Roster(w))
                   /\ \A i \in 1..Len(Roster(w)) :
                          Identity(State.results[i]) = Roster(w)[i]

\* A run over two students has completed; the first student failed and was not
\* looked up again.
C2_Witness ==
    /\ worker[1].pc = "done"
    /\ Len(State.results) = 2
    /\ State.results[1].status # "Success"
    /\ State.results[2].status = "Success"
    /\ Len(hist.calls[1]) = 2

\* C3: at most one batch run that has begun to change the job state is in
\* progress at any time.
C3_SingleRun ==
    Cardinality({w \in Workers : Alive(w) /\ worker[w].pc # "reset"}) <= 1

\* C4: once every started batch run has ended, on whatever path, the running
\* flag is false.
C4_RunReturnsToIdle ==
    (/\ \E w \in Workers : worker[w].pc \in {"done", "dead"}
     /\ \A w \in Workers : ~Alive(w)) => ~State.running

\* C5: a batch run that has ended has released the browser session it acquired.
C5_SessionReleased ==
    \A w \in Workers : worker[w].pc \in {"done", "dead"} => worker[w].driver # "open"

\* C6: a batch run in which writing a snapshot failed still gets one result per
\* student of its roster.
C6_SnapshotFailureContinues ==
    \A w \in Workers :
        (worker[w].pc = "dead" /\ hist.saveFailed[w] > 0 /\ LastRun(w)
           /\ ~hist.overlap) =>
            Len(State.results) = Len(Roster(w))

\* C7: a lookup always yields a record, of the student looked up: with status
\* Success and the marks extracted from the page when every required control
\* appeared, otherwise with the Failed status of a control that did not appear
\* and no marks. No batch run ends because of a lookup: a run that ended early
\* did so before its first lookup or at a snapshot write, and a completed run
\* has looked up every student of its roster.
C7_LookupNeverAborts ==
    \A w \in Workers :
        /\ worker[w].pc = "append" =>
               LET r == worker[w].result
                   lookup == hist.last[w]
               IN  /\ Identity(r) = worker[w].students[worker[w].i]
                   /\ IF Controls \subseteq lookup.present
                      THEN /\ r.status = "Success"
                           /\ r.marks = ExtractDataFromPage(lookup.page, 1, EmptyDict)
                      ELSE /\ \E c \in Controls \ lookup.present :
                                  r.status = StageMessage(c)
                           /\ r.status # "Success"
                           /\ r.marks = EmptyDict
        /\ worker[w].pc = "dead" =>
               hist.saveFailed[w] > 0 \/ hist.calls[w] = <<>>
        /\ worker[w].pc = "done" => Len(hist.calls[w]) = Len(Roster(w))

\* The first of two students failed at the View link, and the second is being
\* appended with the marks of its page.
C7_Witness ==
    /\ worker[1].pc = "append"
    /\ worker[1].i = 2
    /\ Len(State.results) = 1
    /\ State.results[1].status = "Failed: View link not found"
    /\ State.results[1].marks = EmptyDict
    /\ worker[1].result.status = "Success"
    /\ SUBJECT \in DOMAIN worker[1].result.marks

\* What is still to be written to .expiries.json: a thread is between the dict
\* update of a registration and its save_expiries(), or a sweep is under way.
LedgerBusy ==
    \/ \E w \in Workers : worker[w].pc \in {"uploaded", "persist"}
    \/ manual.pc = "persist"
    \/ cleaner.pc # "sleep"

\* C8: an artifact that has just been registered (the clock still reads the
\* time of its registration) exists and has a ledger entry; once more than its time-to-live plus one sweep interval has passed since its
\* registration, the file is absent, its ledger entry is gone and the filename
\* pointer does not name it.
C8_Eviction ==
    /\ \A w \in Workers :
           /\ (worker[w].pc = "uploaded" /\ now + UPLOAD_TTL = hist.upDue[w]) =>
                  w \in DOMAIN uploads /\ w \in DOMAIN UPLOAD_EXPIRY
           /\ (worker[w].pc = "persist"
                 /\ now + RESULT_TTL = hist.resDue[worker[w].outname]) =>
                  /\ worker[w].outname \in DOMAIN outputs
                  /\ worker[w].outname \in DOMAIN RESULT_EXPIRY
    /\ \A f \in DOMAIN hist.upDue :
           now > hist.upDue[f] + SWEEP_INTERVAL =>
               f \notin DOMAIN uploads /\ f \notin DOMAIN UPLOAD_EXPIRY
    /\ \A f \in DOMAIN hist.resDue :
           now > hist.resDue[f] + SWEEP_INTERVAL =>
               /\ f \notin DOMAIN outputs
               /\ f \notin DOMAIN RESULT_EXPIRY
               /\ State.filename # f

\* C9: whenever no registration and no sweep is under way, .expiries.json holds
\* exactly the entries of the two ledgers in memory (stated for the process
\* that has not been restarted).
C9_LedgerPersisted ==
    (~LedgerBusy /\ hist.restarts = 0 /\ EXPIRY_FILE.exists) =>
        /\ EXPIRY_FILE.uploads = UPLOAD_EXPIRY
        /\ EXPIRY_FILE.results = RESULT_EXPIRY

\* C10: a restart of the process leaves in the ledgers exactly the entries of
\* .expiries.json whose expiry is still in the future.
C10_LedgerSurvivesRestart ==
    [][hist'.restarts > hist.restarts =>
           /\ UPLOAD_EXPIRY' = load_expiries(EXPIRY_FILE, now).uploads
           /\ RESULT_EXPIRY' = load_expiries(EXPIRY_FILE, now).results]_vars

\* C11: the job state is read and written only under STATE_LOCK: a step that
\* changes it is taken while no other thread holds the lock (or by
\* failed_submit, which holds it), and the snapshot writer reads the results
\* list only while no other thread is inside a STATE_LOCK block.
C11_LockDiscipline ==
    [][/\ State' # State =>
             \/ STATE_LOCK = "free"
             \/ STATE_LOCK = "failed_submit" /\ manual.pc # "idle" /\ manual' # manual
       /\ \A w \in Workers :
             (worker[w].pc = "save" /\ worker'[w].pc # "save") => STATE_LOCK = "free"]_vars

\* C12: while a session reset, a wait of the lookup or the extraction is in
\* progress, the batch worker does not hold STATE_LOCK.
C12_NoLockDuringLookup ==
    \A w \in Workers :
        worker[w].pc \in {"session", "lookup"} => STATE_LOCK # "worker_process"

\* The lookup of the second student is in progress: current_index has been set
\* and the lock is free for a status query.
C12_Witness ==
    /\ worker[1].pc = "lookup"
    /\ worker[1].i = 2
    /\ State.current_index = 2
    /\ Len(State.results) = 1
    /\ STATE_LOCK = "free"

\* C13: in a batch run over N students that no other run overlaps, a snapshot
\* is written after record i exactly when i is a multiple of 5 or i = N; the
\* snapshot holds the i records accumulated so far, is then registered in the
\* reports ledger with an expiry of 20 minutes, and only after that becomes the
\* filename pointer.
C13_SnapshotCadence ==
    \A w \in Workers :
        LET wk == worker[w]
            N == Len(wk.students)
        IN  (~hist.overlap /\ LastRun(w)) =>
              /\ wk.pc \in {"save", "register", "persist", "filename"} =>
                     (wk.i % 5 = 0 \/ wk.i = N)
              /\ (wk.pc \in {"index", "lookup", "append"} /\ wk.i > 1
                     /\ (wk.i - 1) % 5 = 0) =>
                     /\ State.filename \in DOMAIN outputs
                     /\ Len(outputs[State.filename]) = wk.i - 1
              /\ (wk.pc = "quit" /\ N > 0) =>
                     /\ State.filename \in DOMAIN outputs
                     /\ Len(outputs[State.filename]) = N
              /\ wk.pc \in {"register", "persist", "filename"} =>
                     /\ wk.outname \in DOMAIN outputs
                     /\ Len(State.results) = wk.i
                     /\ outputs[wk.outname] = [k \in 1..wk.i |-> State.results[k].name]
              /\ wk.pc \in {"persist", "filename"} =>
                     /\ wk.outname \in DOMAIN RESULT_EXPIRY
                     /\ RESULT_EXPIRY[wk.outname] = now + 20 * 60
              /\ wk.pc \in {"register", "persist", "filename"} =>
                     State.filename # wk.outname
              /\ State.filename # NoFile =>
                     /\ State.filename \in DOMAIN outputs
                     /\ State.filename \in DOMAIN RESULT_EXPIRY

\* The final snapshot of a run over six students has been written with six rows
\* and registered, while the pointer still names the snapshot of five rows
\* written after the fifth student.
C13_Witness ==
    /\ worker[1].pc = "filename"
    /\ worker[1].i = 6
    /\ Len(worker[1].students) = 6
    /\ State.filename = BASE_NAME
    /\ Len(outputs[BASE_NAME]) = 5
    /\ worker[1].outname # BASE_NAME
    /\ Len(outputs[worker[1].outname]) = 6
    /\ worker[1].outname \in DOMAIN RESULT_EXPIRY

\* C14: once the reset on entry to a batch run has run, no field of the job
\* state holds a value of the previous batch: the roster and the results are
\* empty, the index and the counters are 0, and no snapshot is pointed at.
C14_ResetToEmpty ==
    \A w \in Workers :
        (worker[w].pc = "read" /\ ~hist.overlap) =>
            /\ State.students = <<>>
            /\ State.results = <<>>
            /\ State.current_index = 0
            /\ State.successful = 0
            /\ State.failed = 0
            /\ State.filename = NoFile

\* The mapping a manual correction is to store: for each code that is the
\* first field of a line of at least four fields, the fourth field of the
\* last such line.
ManualMapping(lines) ==
    LET long == {j \in 1..Len(lines) : Len(lines[j]) >= 4}
        last(c) == CHOOSE j \in long :
                       /\ lines[j][1] = c
                       /\ \A i \in long : lines[i][1] = c => i <= j
    IN  [c \in {lines[j][1] : j \in long} |-> lines[last(c)][4]]

\* C15: a manual correction at a valid index takes STATE_LOCK and, until it
\* releases it, the corrected record carries the mapping built from the lines
\* of at least four fields and the status 'Success (manual)', every other
\* record is as it was, the regenerated snapshot is written with the corrected
\* list and registered with a 20-minute expiry; the step that releases the lock
\* is the one that points the filename at that snapshot.
C15_ManualCorrection ==
    /\ [](manual.pc # "idle" =>
            LET idx == hist.manual.idx
                before == hist.manual.before
                rec == State.results[idx + 1]
            IN  /\ STATE_LOCK = "failed_submit"
                /\ idx < Len(before)
                /\ Len(State.results) = Len(before)
                /\ \A k \in 1..Len(before) :
                       k # idx + 1 => State.results[k] = before[k]
                /\ Identity(rec) = Identity(before[idx + 1])
                /\ rec.status = "Success (manual)"
                /\ rec.marks = ManualMapping(hist.manual.lines)
                /\ manual.pc \in {"register", "persist"} =>
                       /\ manual.outname \in DOMAIN outputs
                       /\ outputs[manual.outname] =
                              [k \in 1..Len(State.results) |-> State.results[k].name]
                /\ manual.pc = "persist" =>
                       /\ manual.outname \in DOMAIN RESULT_EXPIRY
                       /\ RESULT_EXPIRY[manual.outname] = now + 20 * 60)
    /\ [][/\ (manual.pc = "idle" /\ manual'.pc # "idle") => STATE_LOCK = "free"
          /\ (manual.pc = "persist" /\ manual'.pc = "idle") =>
                 /\ State'.filename = manual.outname
                 /\ State'.results = State.results
                 /\ manual.outname \in DOMAIN outputs'
                 /\ manual.outname \in DOMAIN RESULT_EXPIRY'
                 /\ STATE_LOCK' = "free"]_vars

\* A failed record at index 0 has been corrected with two lines of the same
\* code, the snapshot is written and registered, and the lock is still held.
C15_Witness ==
    /\ manual.pc = "persist"
    /\ hist.manual.idx = 0
    /\ hist.manual.lines = <<GoodLine, LongLine>>
    /\ hist.manual.before[1].status = "Failed: View link not found"
    /\ State.results[1].marks[SUBJECT] = <<"5", "5">>
    /\ STATE_LOCK = "failed_submit"

\* The statuses that count as success.
SuccessStatuses == {"Success", "Success (manual)"}

\* C16: the failure list a status query returns holds exactly the records whose
\* status is no success status, in order; a manually corrected record is not
\* in it.
C16_FailedList ==
    STATE_LOCK = "free" =>
        status.failed_list =
            SelectSeq(State.results, LAMBDA r : r.status \notin SuccessStatuses)

\* C17: a status query names a current student only while a student is in
\* flight: none when no batch is running, and while one is running the student
\* at current_index of the roster (none before the first).
C17_CurrentStudent ==
    (STATE_LOCK = "free" /\ ~hist.overlap) =>
        /\ ~status.running => status.current_student = None
        /\ (status.running /\ status.current > 0) =>
               status.current_student = State.students[status.current].name

\* The rows of a page the extraction looks at: at least three cells and a
\* subject code in the first.
IsDataRow(row) == row.cells >= 3 /\ row.code # ""

\* The code of row k is carried by no other data row of the page.
CodeOnce(page, k) ==
    \A j \in 1..Len(page) : (j # k /\ IsDataRow(page[j])) => page[j].code # page[k].code

\* C18: when several data rows of a page carry the same subject code and yield
\* a mark token, the token recorded for the code is that of the first of them.
C18_FirstOccurrenceWins ==
    \A w \in Workers :
        worker[w].pc = "append" =>
            LET page == hist.last[w].page
                marks == worker[w].result.marks
                yields(k) == IsDataRow(page[k]) /\ RowMark(page[k].words) # NoMark
            IN  \A k \in 1..Len(page) :
                    (yields(k) /\ \A j \in 1..(k - 1) :
                                     ~(yields(j) /\ page[j].code = page[k].code)) =>
                        /\ page[k].code \in DOMAIN marks
                        /\ marks[page[k].code] = RowMark(page[k].words)

\* C19: for a data row whose text has a word of one to three digits followed by
\* F (and whose code no other row of the page carries), the token recorded is
\* such a word of the row, in upper case: never the plain F, never a number.
C19_NumberFPrecedence ==
    \A w \in Workers :
        worker[w].pc = "append" =>
            LET page == hist.last[w].page
                marks == worker[w].result.marks
                composite(t) ==
                    /\ Len(t) \in 2..4
                    /\ t[Len(t)] \in {"F", "f"}
                    /\ \A i \in 1..(Len(t) - 1) : t[i] \in Digits
            IN  \A k \in 1..Len(page) :
                    (IsDataRow(page[k]) /\ CodeOnce(page, k)
                       /\ \E n \in 1..Len(page[k].words) : composite(page[k].words[n])) =>
                        /\ page[k].code \in DOMAIN marks
                        /\ \E n \in 1..Len(page[k].words) :
                               /\ composite(page[k].words[n])
                               /\ marks[page[k].code] = UpperWord(page[k].words[n])
                        /\ marks[page[k].code] # <<"F">>
                        /\ marks[page[k].code][Len(marks[page[k].code])] = "F"

\* The row reads "CS-CS-101 F 29F": the token recorded is 29F.
C19_Witness ==
    /\ worker[1].pc = "append"
    /\ hist.last[1].page = <<DataRow(SUBJECT, <<<<"F">>, <<"2", "9", "F">>>>)>>
    /\ worker[1].result.status = "Success"
    /\ worker[1].result.marks[SUBJECT] = <<"2", "9", "F">>

\* C20: for a data row without a number+F word and without a word F (and whose
\* code no other row of the page carries), in which words of two or three
\* digits have a value in 10..100, the mark recorded is the last of these
\* words; numbers outside 10..100 play no part.
C20_LastNumberWins ==
    \A w \in Workers :
        worker[w].pc = "append" =>
            LET page == hist.last[w].page
                marks == worker[w].result.marks
                fail(t) == t[Len(t)] \in {"F", "f"}
                             /\ Len(t) <= 4
                             /\ \A i \in 1..(Len(t) - 1) : t[i] \in Digits
                inRange(t) == /\ Len(t) \in 2..3
                              /\ \A i \in 1..Len(t) : t[i] \in Digits
                              /\ IntOf(t, 1, 0) >= 10
                              /\ IntOf(t, 1, 0) <= 100
            IN  \A k \in 1..Len(page) :
                    LET words == page[k].words
                        good == {n \in 1..Len(words) : inRange(words[n])}
                    IN  (IsDataRow(page[k]) /\ CodeOnce(page, k) /\ good # {}
                           /\ \A n \in 1..Len(words) : ~fail(words[n])) =>
                            /\ page[k].code \in DOMAIN marks
                            /\ \E n \in good :
                                   /\ \A m \in good : m <= n
                                   /\ marks[page[k].code] = words[n]

\* The row reads "CS-CS-101 100 76": 101 is out of range, and of 100 and 76
\* the last, 76, is recorded.
C20_Witness ==
    /\ worker[1].pc = "append"
    /\ hist.last[1].page = <<DataRow(SUBJECT, <<<<"1", "0", "0">>, <<"7", "6">>>>)>>
    /\ worker[1].result.marks[SUBJECT] = <<"7", "6">>

\* C21: every token the extraction stores that has a numeric part, a plain
\* number or the digits of a number+F token, has that part within 10..100.
C21_MarkRange ==
    \A w \in Workers :
        worker[w].pc = "append" =>
            LET marks == worker[w].result.marks
                numeric(t) == IF t[Len(t)] = "F" THEN SubSeq(t, 1, Len(t) - 1) ELSE t
            IN  \A code \in DOMAIN marks :
                    numeric(marks[code]) # <<>> =>
                        /\ IntOf(numeric(marks[code]), 1, 0) >= 10
                        /\ IntOf(numeric(marks[code]), 1, 0) <= 100

\* The number of records of a list whose status is in a set.
CountStatus(results, statuses) ==
    Cardinality({k \in 1..Len(results) : results[k].status \in statuses})

\* C22: when a required control does not appear, the lookup ends at the wait
\* for the first such control: nothing is done to a later control, no
\* confirmation control is probed unless submit was clicked, nothing is
\* extracted; the record has the Failed status of that stage and no marks; and
\* the worker's failed counter counts exactly the records that are not
\* Success, its successful counter the others.
C22_StageFailure ==
    /\ \A w \in Workers :
           worker[w].pc = "append" =>
               LET present == hist.last[w].present
                   steps == LookupSteps(present, 1)
                   missing == {k \in 1..Len(Required) : Required[k] \notin present}
                   message == <<"Failed: Roll input not found",
                                "Failed: Registration input not found",
                                "Failed: Submit button not found",
                                "Failed: View link not found">>
               IN  missing # {} =>
                       LET first == CHOOSE k \in missing : \A j \in missing : k <= j
                       IN  /\ worker[w].result.status = message[first]
                           /\ worker[w].result.marks = EmptyDict
                           /\ steps[Len(steps)] = [do |-> "wait", on |-> Required[first]]
                           /\ \A n \in 1..Len(steps) :
                                  /\ steps[n].do # "extract"
                                  /\ \A j \in (first + 1)..Len(Required) :
                                         steps[n].on # Required[j]
                                  /\ first <= 3 => steps[n].on \notin ConfirmControls
    /\ (STATE_LOCK = "free" /\ ~hist.overlap) =>
           /\ State.failed = CountStatus(State.results,
                                  {r.status : r \in {State.results[k] :
                                                      k \in 1..Len(State.results)}}
                                      \ {"Success"})
           /\ State.successful = CountStatus(State.results, {"Success"})

\* The run over two students has ended with the first found and the second
\* stopped at the View link: successful = 1, failed = 1, current_index = 2.
C22_Witness ==
    /\ worker[1].pc = "done"
    /\ Len(State.results) = 2
    /\ State.results[1].status = "Success"
    /\ State.results[2].status = "Failed: View link not found"
    /\ State.results[2].marks = EmptyDict
    /\ State.successful = 1
    /\ State.failed = 1
    /\ State.current_index = 2

\* C23: once submit was clicked, imgComfirm is waited for first; if it appears
\* it is clicked and cmdconfirm is not probed; otherwise cmdconfirm is waited
\* for and clicked if it appears; at most one is clicked; the wait for the View
\* link follows in every case, and with the View link there the lookup
\* succeeds whether or not a confirmation control appeared.
C23_ConfirmProbing ==
    \A w \in Workers :
        worker[w].pc = "append" =>
            LET present == hist.last[w].present
                steps == LookupSteps(present, 1)
                img == "imgComfirm"
                cmd == "cmdconfirm"
                confirm == SelectSeq(steps, LAMBDA st : st.on \in ConfirmControls)
                at(st) == CHOOSE n \in 1..Len(steps) : steps[n] = st
            IN  {"roll_input", "reg_input", "submit"} \subseteq present =>
                    /\ confirm =
                           IF img \in present
                           THEN <<[do |-> "wait", on |-> img], [do |-> "act", on |-> img]>>
                           ELSE IF cmd \in present
                           THEN <<[do |-> "wait", on |-> img], [do |-> "wait", on |-> cmd],
                                  [do |-> "act", on |-> cmd]>>
                           ELSE <<[do |-> "wait", on |-> img], [do |-> "wait", on |-> cmd]>>
                    /\ at(confirm[1]) = at([do |-> "act", on |-> "submit"]) + 1
                    /\ at([do |-> "wait", on |-> "view_link"])
                           = at(confirm[Len(confirm)]) + 1
                    /\ "view_link" \in present =>
                           /\ worker[w].result.status = "Success"
                           /\ \E n \in 1..Len(steps) :
                                  steps[n] = [do |-> "act", on |-> "view_link"]

\* Both confirmation controls appear: the lookup clicks imgComfirm only, and
\* succeeds.
C23_Witness ==
    /\ worker[1].pc = "append"
    /\ hist.last[1].present = Elements
    /\ worker[1].result.status = "Success"
    /\ [do |-> "act", on |-> "cmdconfirm"]
           \notin {LookupSteps(Elements, 1)[n] : n \in 1..Len(LookupSteps(Elements, 1))}

\* C24: when every required control appeared and the wait for the result
\* content timed out, the extraction still runs, after a warning, and the
\* record has status Success with the mapping extracted from the page.
C24_ContentTimeout ==
    \A w \in Workers :
        worker[w].pc = "append" =>
            LET present == hist.last[w].present
                steps == LookupSteps(present, 1)
            IN  (Controls \subseteq present /\ "table" \notin present) =>
                    /\ worker[w].result.status = "Success"
                    /\ worker[w].result.marks =
                           ExtractDataFromPage(hist.last[w].page, 1, EmptyDict)
                    /\ steps[Len(steps)] = [do |-> "extract", on |-> "page"]
                    /\ steps[Len(steps) - 1] = [do |-> "warn", on |-> "table"]

\* The content wait timed out and the page still gave a mark.
C24_Witness ==
    /\ worker[1].pc = "append"
    /\ Controls \subseteq hist.last[1].present
    /\ "table" \notin hist.last[1].present
    /\ hist.last[1].page = OnePage
    /\ worker[1].result.status = "Success"
    /\ worker[1].result.marks[SUBJECT] = <<"8", "5">>

\* C25: in a batch run that no other run overlaps, the session reset of a
\* student is made when the records of all earlier students are appended and
\* before the student is looked up; every lookup, the first included, comes
\* after a reset attempt of its own, and a reset that failed is still followed
\* by the lookup of the same student.
C25_SessionReset ==
    \A w \in Workers :
        LET wk == worker[w]
        IN  (~hist.overlap /\ LastRun(w)) =>
              /\ wk.pc = "session" =>
                     /\ wk.session = "none"
                     /\ Len(State.results) = wk.i - 1
                     /\ Len(hist.calls[w]) = wk.i - 1
              /\ wk.pc = "lookup" =>
                     /\ wk.session \in {"fresh", "failed"}
                     /\ Len(State.results) = wk.i - 1
                     /\ Len(hist.calls[w]) = wk.i - 1
              /\ wk.pc = "append" =>
                     /\ wk.session \in {"fresh", "failed"}
                     /\ Len(hist.calls[w]) = wk.i
                     /\ hist.calls[w][wk.i] = wk.students[wk.i]
                     /\ Identity(wk.result) = wk.students[wk.i]

\* The reset before the second student failed, and the second student has
\* been looked up all the same.
C25_Witness ==
    /\ worker[1].pc = "append"
    /\ worker[1].i = 2
    /\ worker[1].session = "failed"
    /\ Len(State.results) = 1
    /\ worker[1].result.name = worker[1].students[2].name
    /\ worker[1].result.status = "Success"

\* The rows of a sheet whose three identity cells are filled and parseable.
ValidRows(rows) ==
    SelectSeq(rows, LAMBDA r : {r.name, r.roll, r.reg} \cap {NaN, Text} = {})

\* C26: once the worker of a readable sheet is past loading the roster, the
\* roster of the job state is exactly the rows of the sheet with three valid
\* identity fields, in the order of the sheet; a row with an empty or
\* unparseable field is dropped and the run goes on.
C26_RosterFiltering ==
    \A w \in Workers :
        (/\ LastRun(w)
         /\ ~hist.overlap
         /\ w \in DOMAIN uploads
         /\ uploads[w].readable
         /\ worker[w].pc \notin {"unborn", "uploaded", "reset", "read", "students"}) =>
            State.students = ValidRows(uploads[w].rows)

\* The threads that take locks, and for each the locks its next statement
\* requests: the upload handler before its save_expiries(); the batch worker
\* before a with STATE_LOCK block or inside set_result_expiry; failed_submit
\* inside set_result_expiry; the cleaner before lines 118-120.
Threads == {"upload", "worker_process", "failed_submit", "cleaner_loop"}

Wants(t) ==
    CASE t = "upload" ->
            IF \E w \in Workers : worker[w].pc = "uploaded"
            THEN {"EXPIRY_LOCK"} ELSE {}
      [] t = "worker_process" ->
            (IF \E w \in Workers : worker[w].pc \in {"reset", "students", "index",
                                                      "append", "filename", "quit"}
             THEN {"STATE_LOCK"} ELSE {})
            \cup (IF \E w \in Workers : worker[w].pc \in {"register", "persist"}
                  THEN {"EXPIRY_LOCK"} ELSE {})
      [] t = "failed_submit" ->
            IF manual.pc \in {"register", "persist"} THEN {"EXPIRY_LOCK"} ELSE {}
      [] t = "cleaner_loop" ->
            IF cleaner.pc = "clear" THEN {"STATE_LOCK"} ELSE {}

Holder(lock) == IF lock = "STATE_LOCK" THEN STATE_LOCK ELSE EXPIRY_LOCK

Holds(t) == {lock \in {"STATE_LOCK", "EXPIRY_LOCK"} : Holder(lock) = t}

\* C27: no thread requests STATE_LOCK while it holds EXPIRY_LOCK; no thread
\* requests a lock it holds; and a lock that is requested while held is held by
\* a running thread that is not itself waiting for a held lock, so that it will
\* release it: there is no cycle of waiting threads.
C27_NoDeadlock ==
    /\ \A t \in Threads :
           /\ "STATE_LOCK" \in Wants(t) => "EXPIRY_LOCK" \notin Holds(t)
           /\ Wants(t) \cap Holds(t) = {}
           /\ \A lock \in Wants(t) :
                  Holder(lock) # "free" =>
                      /\ Holder(lock) \in Threads \ {t}
                      /\ \A other \in Wants(Holder(lock)) : Holder(other) = "free"
    /\ STATE_LOCK = "failed_submit" => manual.pc \in {"save", "register", "persist"}
    /\ STATE_LOCK \in {"free", "failed_submit"}

\* failed_submit holds STATE_LOCK and is about to take EXPIRY_LOCK, which is
\* free, while the batch worker and the cleaner both wait for STATE_LOCK.
C27_Witness ==
    /\ STATE_LOCK = "failed_submit"
    /\ manual.pc = "register"
    /\ EXPIRY_LOCK = "free"
    /\ "STATE_LOCK" \in Wants("worker_process")
    /\ cleaner.pc = "clear"

\* C28: whenever the filename pointer can be read and names a report (the
\* cleaner not being in the middle of evicting that very report), the report
\* file exists and has an entry in the reports ledger.
C28_PointerValid ==
    (/\ STATE_LOCK = "free"
     /\ State.filename # NoFile
     /\ ~(cleaner.pc \in {"pop", "clear"} /\ cleaner.fname = State.filename)) =>
        /\ State.filename \in DOMAIN outputs
        /\ State.filename \in DOMAIN RESULT_EXPIRY

\* C29: whenever no registration and no sweep is under way, and no deletion
\* by the sweep has failed, every upload on disk has an entry in the uploads
\* ledger and every report on disk has an entry in the reports ledger.
C29_NoLeak ==
    (/\ ~hist.removeFailed
     /\ cleaner.pc = "sleep"
     /\ manual.pc = "idle"
     /\ \A w \in Workers : worker[w].pc \notin {"register", "uploaded"}) =>
        /\ DOMAIN uploads \subseteq DOMAIN UPLOAD_EXPIRY
        /\ DOMAIN outputs \subseteq DOMAIN RESULT_EXPIRY

====
